---------------------------- MODULE Spec2Model ----------------------------
(***************************************************************************)
(* Temperature quantities (src/main.cpp): a scalar `double` tagged with    *)
(* its scale, the six pairwise conversions, the tolerance equality, the    *)
(* ordering and arithmetic operators, and the self-check run of main.      *)
(*                                                                         *)
(* The raw value of a quantity is an IEEE-754 binary64 number.  It is       *)
(* modelled exactly: a finite value is sign * m * 2^e with m an odd         *)
(* natural number kept as a sequence of bits (least significant first,     *)
(* so that 53-bit significands fit), and every arithmetic operation        *)
(* rounds its exact result to nearest, ties to even, as the hardware does. *)
(***************************************************************************)
EXTENDS Integers, Sequences, FiniteSets, TLC

(***************************************************************************)
(* Natural numbers of any size: sequences of bits, least significant       *)
(* first, without leading zeros (the last element is 1; zero is <<>>).     *)
(* The carry chains run over a range of bit positions split in halves, so  *)
(* that the evaluation nests only to the logarithm of the length.          *)
(***************************************************************************)
RECURSIVE BNFromInt(_)
BNFromInt(n) == IF n = 0 THEN <<>> ELSE <<n % 2>> \o BNFromInt(n \div 2)

\* x without its leading zeros
BNTrim(x) ==
    IF \A i \in 1..Len(x) : x[i] = 0 THEN <<>>
    ELSE SubSeq(x, 1, CHOOSE i \in 1..Len(x) :
                          x[i] = 1 /\ \A j \in (i + 1)..Len(x) : x[j] = 0)

BNBit(x, i) == IF i >= 1 /\ i <= Len(x) THEN x[i] ELSE 0

\* bits lo..hi of x + y + c (c the carry into bit lo) and the carry out
RECURSIVE BNAddRange(_, _, _, _, _)
BNAddRange(x, y, lo, hi, c) ==
    IF lo > hi THEN [bits |-> <<>>, c |-> c]
    ELSE IF lo = hi
    THEN LET s == BNBit(x, lo) + BNBit(y, lo) + c
         IN  [bits |-> <<s % 2>>, c |-> s \div 2]
    ELSE LET mid == (lo + hi) \div 2
             low == BNAddRange(x, y, lo, mid, c)
             high == BNAddRange(x, y, mid + 1, hi, low.c)
         IN  [bits |-> low.bits \o high.bits, c |-> high.c]

BNAdd(x, y) ==
    LET n == IF Len(x) > Len(y) THEN Len(x) ELSE Len(y)
        r == BNAddRange(x, y, 1, n, 0)
    IN  IF r.c = 1 THEN Append(r.bits, 1) ELSE r.bits

\* bits lo..hi of x - y - b (b the borrow into bit lo) and the borrow out
RECURSIVE BNSubRange(_, _, _, _, _)
BNSubRange(x, y, lo, hi, b) ==
    IF lo > hi THEN [bits |-> <<>>, b |-> b]
    ELSE IF lo = hi
    THEN LET d == BNBit(x, lo) - BNBit(y, lo) - b
         IN  [bits |-> <<d % 2>>, b |-> IF d < 0 THEN 1 ELSE 0]
    ELSE LET mid == (lo + hi) \div 2
             low == BNSubRange(x, y, lo, mid, b)
             high == BNSubRange(x, y, mid + 1, hi, low.b)
         IN  [bits |-> low.bits \o high.bits, b |-> high.b]

\* x - y for x >= y
BNSub(x, y) == BNTrim(BNSubRange(x, y, 1, Len(x), 0).bits)

\* -1, 0 or 1 as x < y, x = y or x > y
BNCmp(x, y) ==
    IF Len(x) > Len(y) THEN 1
    ELSE IF Len(x) < Len(y) THEN -1
    ELSE IF x = y THEN 0
    ELSE LET i == CHOOSE i \in 1..Len(x) :
                      x[i] # y[i] /\ \A j \in (i + 1)..Len(x) : x[j] = y[j]
         IN  IF x[i] > y[i] THEN 1 ELSE -1

\* x * 2^k
BNShl(x, k) == IF x = <<>> \/ k <= 0 THEN x ELSE [i \in 1..k |-> 0] \o x

\* floor(x / 2^k)
BNShr(x, k) == IF k <= 0 THEN x ELSE SubSeq(x, k + 1, Len(x))

\* x times the bits lo..hi of y, each at its weight
RECURSIVE BNMulRange(_, _, _, _)
BNMulRange(x, y, lo, hi) ==
    IF lo > hi THEN <<>>
    ELSE IF lo = hi THEN (IF y[lo] = 1 THEN BNShl(x, lo - 1) ELSE <<>>)
    ELSE LET mid == (lo + hi) \div 2
         IN  BNAdd(BNMulRange(x, y, lo, mid), BNMulRange(x, y, mid + 1, hi))

BNMul(x, y) == BNMulRange(x, y, 1, Len(y))

\* Long division of x by d (d # 0) over the bits hi down to lo of x, entered
\* with the remainder r < d of the bits above hi: the quotient bits lo..hi
\* and the remainder left.
RECURSIVE BNDivRange(_, _, _, _, _)
BNDivRange(x, d, lo, hi, r) ==
    IF lo > hi \/ BNCmp(r, d) >= 0 THEN [quot |-> <<>>, rem |-> r]
    ELSE IF lo = hi
    THEN LET r2 == BNTrim(<<x[lo]>> \o r)
         IN  IF BNCmp(r2, d) >= 0
             THEN [quot |-> <<1>>, rem |-> BNSub(r2, d)]
             ELSE [quot |-> <<0>>, rem |-> r2]
    ELSE LET mid == (lo + hi) \div 2
             high == BNDivRange(x, d, mid + 1, hi, r)
             low == BNDivRange(x, d, lo, mid, high.rem)
         IN  [quot |-> low.quot \o high.quot, rem |-> low.rem]

BNDivMod(x, d) ==
    LET qr == BNDivRange(x, d, 1, Len(x), <<>>)
    IN  [quot |-> BNTrim(qr.quot), rem |-> qr.rem]

\* the number of low zero bits of x # 0
BNLowZeros(x) ==
    (CHOOSE i \in 1..Len(x) : x[i] = 1 /\ \A j \in 1..(i - 1) : x[j] = 0) - 1

\* some bit among the k lowest is set
BNSticky(x, k) == \E i \in 1..k : BNBit(x, i) = 1

(***************************************************************************)
(* Floating-point formats.  A format is its number of significant bits,    *)
(* the exponent of its least unit and the exponent bounding its finite     *)
(* values: `double` is binary64 (53 bits, least unit 2^-1074, values below *)
(* 2^1024); `long double`, the parameter type of the literal operators, is *)
(* the x87 extended format (64 bits, least unit 2^-16445, below 2^16384).  *)
(***************************************************************************)
MantBits == 53
MinExp == -1074
MaxExp == 1024
Double == [bits |-> MantBits, min |-> MinExp, max |-> MaxExp]

LongMantBits == 64
LongMinExp == -16445
LongMaxExp == 16384
LongDouble == [bits |-> LongMantBits, min |-> LongMinExp, max |-> LongMaxExp]

NaN == [kind |-> "nan", s |-> 0, m |-> <<>>, e |-> 0]
Inf(s) == [kind |-> "inf", s |-> s, m |-> <<>>, e |-> 0]
Zero(s) == [kind |-> "fin", s |-> s, m |-> <<>>, e |-> 0]

IsNaN(x) == x.kind = "nan"
IsInf(x) == x.kind = "inf"
IsFinite(x) == x.kind = "fin"
IsZero(x) == x.kind = "fin" /\ x.m = <<>>

\* sign * M * 2^e with M any natural number, exactly representable:
\* the canonical form with an odd significand.
Canon(s, M, e) ==
    IF M = <<>> THEN Zero(s)
    ELSE LET z == BNLowZeros(M)
         IN  [kind |-> "fin", s |-> s, m |-> BNShr(M, z), e |-> e + z]

\* sign * M * 2^e rounded to the nearest value of format f, ties to even;
\* a result of magnitude 2^f.max or more is an infinity.
RoundTo(f, s, M, e) ==
    IF M = <<>> THEN Zero(s)
    ELSE LET L == Len(M)
             lo == IF e + L - f.bits > f.min THEN e + L - f.bits ELSE f.min
             sh == lo - e
             kept == BNShr(M, sh)
             up == /\ sh >= 1
                   /\ BNBit(M, sh) = 1
                   /\ (BNSticky(M, sh - 1) \/ BNBit(kept, 1) = 1)
             R == IF sh <= 0 THEN M ELSE IF up THEN BNAdd(kept, <<1>>) ELSE kept
             re == IF sh <= 0 THEN e ELSE lo
         IN  IF Len(R) + re > f.max THEN Inf(s) ELSE Canon(s, R, re)

\* rounding to double
Round(s, M, e) == RoundTo(Double, s, M, e)

\* the double nearest to the integer n
FromInt(n) == IF n < 0 THEN Round(1, BNFromInt(-n), 0) ELSE Round(0, BNFromInt(n), 0)

DNeg(x) == IF IsNaN(x) THEN x ELSE [x EXCEPT !.s = 1 - x.s]

DAbs(x) == IF IsNaN(x) THEN x ELSE [x EXCEPT !.s = 0]

\* the magnitudes of two finite values on their common unit 2^min(e)
AlignL(x, y) == BNShl(x.m, x.e - (IF x.e < y.e THEN x.e ELSE y.e))


\* the exponent just above a finite nonzero value: 2^(TopExp-1) <= |x| < 2^TopExp
TopExp(x) == x.e + Len(x.m)

\* -1, 0 or 1 comparing the magnitudes of two finite nonzero values
CmpMag(x, y) ==
    IF TopExp(x) > TopExp(y) THEN 1
    ELSE IF TopExp(x) < TopExp(y) THEN -1
    ELSE BNCmp(AlignL(x, y), AlignL(y, x))

\* An operand more than MantBits + 2 binary places below the other is less
\* than half a unit in the last place of any neighbour of the other: the
\* rounded sum or difference is the larger operand itself.
DAdd(x, y) ==
    IF IsNaN(x) \/ IsNaN(y) THEN NaN
    ELSE IF IsInf(x) THEN (IF IsInf(y) /\ y.s # x.s THEN NaN ELSE x)
    ELSE IF IsInf(y) THEN y
    ELSE IF IsZero(x) /\ IsZero(y) THEN Zero(IF x.s = 1 /\ y.s = 1 THEN 1 ELSE 0)
    ELSE IF IsZero(x) THEN y
    ELSE IF IsZero(y) THEN x
    ELSE IF TopExp(x) - TopExp(y) > MantBits + 2 THEN x
    ELSE IF TopExp(y) - TopExp(x) > MantBits + 2 THEN y
    ELSE LET e0 == IF x.e < y.e THEN x.e ELSE y.e
             X == AlignL(x, y)
             Y == AlignL(y, x)
             c == BNCmp(X, Y)
         IN  IF x.s = y.s THEN Round(x.s, BNAdd(X, Y), e0)
             ELSE IF c = 0 THEN Zero(0)
             ELSE IF c > 0 THEN Round(x.s, BNSub(X, Y), e0)
             ELSE Round(y.s, BNSub(Y, X), e0)

DSub(x, y) == DAdd(x, DNeg(y))

DMul(x, y) ==
    IF IsNaN(x) \/ IsNaN(y) THEN NaN
    ELSE LET s == IF x.s = y.s THEN 0 ELSE 1
         IN  IF IsInf(x) \/ IsInf(y)
             THEN (IF IsZero(x) \/ IsZero(y) THEN NaN ELSE Inf(s))
             ELSE Round(s, BNMul(x.m, y.m), x.e + y.e)

\* x / y rounded to format f.  The quotient of the significands is developed
\* to f.bits + 3 bits beyond the divisor's length, which leaves more than
\* f.bits + 2 quotient bits, and a last bit that records a nonzero remainder.
DivTo(f, x, y) ==
    IF IsNaN(x) \/ IsNaN(y) THEN NaN
    ELSE LET s == IF x.s = y.s THEN 0 ELSE 1
         IN  IF IsInf(x) THEN (IF IsInf(y) THEN NaN ELSE Inf(s))
             ELSE IF IsInf(y) THEN Zero(s)
             ELSE IF IsZero(y) THEN (IF IsZero(x) THEN NaN ELSE Inf(s))
             ELSE IF IsZero(x) THEN Zero(s)
             ELSE LET k == f.bits + 3 + Len(y.m)
                      qr == BNDivMod(BNShl(x.m, k), y.m)
                      st == IF qr.rem = <<>> THEN 0 ELSE 1
                  IN  RoundTo(f, s, <<st>> \o qr.quot, x.e - y.e - k - 1)

DDiv(x, y) == DivTo(Double, x, y)

\* x < y on doubles: false when either is a NaN; the two zeros are equal
DLess(x, y) ==
    IF IsNaN(x) \/ IsNaN(y) THEN FALSE
    ELSE IF IsZero(x) /\ IsZero(y) THEN FALSE
    ELSE IF x.s # y.s THEN x.s = 1
    ELSE IF IsInf(x) THEN (x.s = 1 /\ ~IsInf(y))
    ELSE IF IsInf(y) THEN y.s = 0
    ELSE IF IsZero(x) THEN y.s = 0
    ELSE IF IsZero(y) THEN x.s = 1
    ELSE IF x.s = 0 THEN CmpMag(x, y) < 0 ELSE CmpMag(x, y) > 0

\* A decimal literal digits * 10^-places (digits an integer, places >= 0)
\* of type double: the compiler's correctly rounded conversion.
Lit(digits, places) == DDiv(FromInt(digits), FromInt(10 ^ places))

\* The same literal with the type long double (the argument of a literal
\* operator), and static_cast<double> of a long double.
LongLit(digits, places) == DivTo(LongDouble, FromInt(digits), FromInt(10 ^ places))

CastToDouble(x) == IF IsFinite(x) THEN Round(x.s, x.m, x.e) ELSE x

(***************************************************************************)
(* The quantity library.                                                   *)
(***************************************************************************)
EPSILON == Lit(1, 3)

\* AreEqual with <= for <, and with == for the tolerance
AreEqualInclusive(d1, d2) == ~DLess(EPSILON, DAbs(DSub(d1, d2)))

AreEqualExact(d1, d2) == ~DLess(d1, d2) /\ ~DLess(d2, d1)

AreEqual(d1, d2) == DLess(DAbs(DSub(d1, d2)), EPSILON)

Scale == {"CELSIUS", "FAHRENHEIT", "KELVIN"}

\* Quantity<S>: the constructor, and the conversion to double
Quantity(S, a) == [scale |-> S, amount |-> a]

ToDouble(q) == q.amount

\* the comparison and arithmetic operators, on two quantities of one scale
OpEq(lhs, rhs) == AreEqual(ToDouble(lhs), ToDouble(rhs))

OpNe(lhs, rhs) == ~OpEq(lhs, rhs)

\* operator+ with the body of operator-
OpPlusAsMinus(q1, q2) == Quantity(q1.scale, DSub(ToDouble(q1), ToDouble(q2)))

OpPlus(q1, q2) == Quantity(q1.scale, DAdd(ToDouble(q1), ToDouble(q2)))

OpMinus(q1, q2) == Quantity(q1.scale, DSub(ToDouble(q1), ToDouble(q2)))

\* the specializations with one more, of a scale to itself
HasConversionWithIdentity(S, R) == S \in Scale /\ R \in Scale

\* ConversionTraits<S, R>: the pairs with a specialization; every other
\* pair is the primary template, whose Convert is deleted.
HasConversion(S, R) ==
    <<S, R>> \in {<<"CELSIUS", "KELVIN">>, <<"KELVIN", "CELSIUS">>,
                  <<"CELSIUS", "FAHRENHEIT">>, <<"FAHRENHEIT", "CELSIUS">>,
                  <<"FAHRENHEIT", "KELVIN">>, <<"KELVIN", "FAHRENHEIT">>}

Deleted == [kind |-> "deleted", s |-> 0, m |-> <<>>, e |-> 0]

\* 273.15 and 459.67 mistyped
D273_16 == Lit(27316, 2)
D459_76 == Lit(45976, 2)

\* the literals of the conversion formulas, as the compiler converts them
D273_15 == Lit(27315, 2)
D459_67 == Lit(45967, 2)
D9 == FromInt(9)
D5 == FromInt(5)
D32 == FromInt(32)

\* Convert with the sign of 459.67 slipped in Kelvin to Fahrenheit
ConvertSignSlip(S, R, value) ==
    CASE S = "CELSIUS" /\ R = "KELVIN" -> DAdd(value, Lit(27315, 2))
      [] S = "KELVIN" /\ R = "CELSIUS" -> DSub(value, Lit(27315, 2))
      [] S = "CELSIUS" /\ R = "FAHRENHEIT" ->
             DAdd(DDiv(DMul(value, FromInt(9)), FromInt(5)), FromInt(32))
      [] S = "FAHRENHEIT" /\ R = "CELSIUS" ->
             DDiv(DMul(DSub(value, FromInt(32)), FromInt(5)), FromInt(9))
      [] S = "FAHRENHEIT" /\ R = "KELVIN" ->
             DDiv(DMul(DAdd(value, Lit(45967, 2)), FromInt(5)), FromInt(9))
      [] S = "KELVIN" /\ R = "FAHRENHEIT" ->
             DAdd(DDiv(DMul(value, FromInt(9)), FromInt(5)), Lit(45967, 2))
      [] OTHER -> [kind |-> "deleted", s |-> 0, m |-> <<>>, e |-> 0]

\* ConversionTraits<S, R>::Convert(value)
Convert(S, R, value) ==
    CASE S = "CELSIUS" /\ R = "KELVIN" -> DAdd(value, D273_15)
      [] S = "KELVIN" /\ R = "CELSIUS" -> DSub(value, D273_15)
      [] S = "CELSIUS" /\ R = "FAHRENHEIT" -> DAdd(DDiv(DMul(value, D9), D5), D32)
      [] S = "FAHRENHEIT" /\ R = "CELSIUS" -> DDiv(DMul(DSub(value, D32), D5), D9)
      [] S = "FAHRENHEIT" /\ R = "KELVIN" -> DDiv(DMul(DAdd(value, D459_67), D5), D9)
      [] S = "KELVIN" /\ R = "FAHRENHEIT" -> DSub(DDiv(DMul(value, D9), D5), D459_67)
      [] OTHER -> Deleted

\* temperature_cast with the pair of scales taken in the other order
temperature_cast_reversed(R, q) ==
    Quantity(R, Convert(R, q.scale, ToDouble(q)))

\* temperature_cast<R>(q) for q a Quantity<S>
temperature_cast(R, q) == Quantity(R, Convert(q.scale, R, ToDouble(q)))

\* the literal operators _deg, _f and _k, applied to a long double
LiteralScale(suffix) ==
    CASE suffix = "_deg" -> "CELSIUS"
      [] suffix = "_f" -> "FAHRENHEIT"
      [] suffix = "_k" -> "KELVIN"

Literal(suffix, amount) == Quantity(LiteralScale(suffix), CastToDouble(amount))

(***************************************************************************)
(* Programs.  A program is main, the self-check of the source, or a client *)
(* of the library: a chain of temperature_cast calls on one quantity, or   *)
(* one operator applied to two quantities of one scale.                    *)
(***************************************************************************)

\* The blocks of main: the line of the first statement, the sample (1, 2, 3
\* for t1, t2, t3), the scale of the cast out and of the cast back.
MainBlocks ==
    << [line |-> 144, sample |-> 1, to |-> "FAHRENHEIT", back |-> "CELSIUS"],
       [line |-> 150, sample |-> 1, to |-> "KELVIN", back |-> "CELSIUS"],
       [line |-> 156, sample |-> 2, to |-> "CELSIUS", back |-> "FAHRENHEIT"],
       [line |-> 162, sample |-> 2, to |-> "KELVIN", back |-> "FAHRENHEIT"],
       [line |-> 168, sample |-> 3, to |-> "CELSIUS", back |-> "KELVIN"],
       [line |-> 174, sample |-> 3, to |-> "FAHRENHEIT", back |-> "KELVIN"] >>

\* the literals of main, lines 139 to 141
MainLiterals ==
    << [line |-> 139, suffix |-> "_deg", digits |-> 365, places |-> 1],
       [line |-> 140, suffix |-> "_f", digits |-> 790, places |-> 1],
       [line |-> 141, suffix |-> "_k", digits |-> 1000, places |-> 1] >>

MainProgram == [kind |-> "main"]

\* the line main returns from
MainEnd == 178

\* the scale of each sample of main, from the suffix of its literal
MainSampleScale(i) == LiteralScale(MainLiterals[i].suffix)

Operators == {"==", "!=", "<", ">", "<=", ">=", "+", "-"}

\* the longest chain of casts of a client
MaxChain == 2

\* the number of stack frames the process can hold
StackLimit == 4

\* the raw values a client constructs its quantities from
Pow2(k) == Canon(0, <<1>>, k)

CastAmounts ==
    { Lit(365, 1), FromInt(79), FromInt(100), Zero(0), Lit(-45967, 2),
      Lit(-27315, 2), Lit(-12345678, 2), Pow2(32), DNeg(Pow2(32)),
      DAdd(Pow2(45), Lit(3, 1)), DAdd(Pow2(50), FromInt(1)), Pow2(1023),
      Inf(0), NaN }

LeftAmounts ==
    { Zero(0), Lit(365, 1), FromInt(1), Pow2(32), Pow2(53), NaN }

RightAmounts ==
    { Zero(0), EPSILON, Pow2(-10), Lit(1001, 3), Lit(365, 1), FromInt(1),
      DNeg(Pow2(32)), DNeg(Pow2(53)) }

Chains == UNION {[1..n -> Scale] : n \in 1..MaxChain}

ClientPrograms ==
    {[kind |-> "casts", targets |-> ch] : ch \in Chains}
        \cup {[kind |-> "operator", op |-> o] : o \in Operators}

NoValue == [kind |-> "none"]
BoolValue(b) == [kind |-> "bool", val |-> b]
QuantityValue(q) == [kind |-> "quantity", val |-> q]

VARIABLES
    program,    \* the program: main, a chain of casts, or an operator call
    status,     \* source, rejected, running, exit0, abort, segv
    pc,         \* main: the line of the next statement; a client: 0
    t,          \* the quantities constructed: t1, t2, t3 of main; a client's
    tmp,        \* the results of the casts (of the current block, in main)
    checked,    \* main: the round trips asserted so far
    stack,      \* the frames of the operator calls in progress
    res,        \* the value the client's operator call returned
    build       \* what the build made of the recursion of operator<

vars == <<program, status, pc, t, tmp, checked, stack, res, build>>

Init ==
    /\ status = "source"
    /\ pc = 0
    /\ tmp = <<>>
    /\ checked = <<>>
    /\ stack = <<>>
    /\ res = NoValue
    /\ build = "any"
    /\ \/ /\ program = MainProgram
          /\ t = <<>>
       \/ /\ program \in ClientPrograms
          /\ \E S \in Scale :
                IF program.kind = "casts"
                THEN \E a \in CastAmounts : t = <<Quantity(S, a)>>
                ELSE \E a \in LeftAmounts, b \in RightAmounts :
                        t = <<Quantity(S, a), Quantity(S, b)>>

\* The casts a program asks for: <<S, R>> for each temperature_cast<R> of a
\* Quantity<S>.
RequestedCasts(prog, first) ==
    IF prog.kind = "main"
    THEN UNION {{<<MainSampleScale(MainBlocks[i].sample), MainBlocks[i].to>>,
                 <<MainBlocks[i].to, MainBlocks[i].back>>} :
                    i \in 1..Len(MainBlocks)}
    ELSE IF prog.kind = "casts"
    THEN {<<(IF i = 1 THEN first ELSE prog.targets[i - 1]), prog.targets[i]>> :
              i \in 1..Len(prog.targets)}
    ELSE {}

\* Compilation: a cast between a pair of scales without a specialization
\* instantiates the deleted Convert, and the program is rejected.
Compile ==
    /\ status = "source"
    /\ LET first == IF program.kind = "casts" THEN t[1].scale ELSE "CELSIUS"
       IN  IF \A c \in RequestedCasts(program, first) : HasConversion(c[1], c[2])
           THEN /\ status' = "running"
                /\ pc' = IF program.kind = "main" THEN MainLiterals[1].line ELSE 0
           ELSE /\ status' = "rejected"
                /\ pc' = pc
    /\ UNCHANGED <<program, t, tmp, checked, stack, res, build>>


(***************************************************************************)
(* main                                                                    *)
(***************************************************************************)
Running(kind) == status = "running" /\ program.kind = kind

\* lines 139 to 141: auto t1{36.5_deg}; auto t2{79.0_f}; auto t3{100.0_k};
MainLiteral ==
    /\ Running("main")
    /\ \E i \in 1..Len(MainLiterals) :
          /\ pc = MainLiterals[i].line
          /\ t' = Append(t, Literal(MainLiterals[i].suffix,
                                    LongLit(MainLiterals[i].digits,
                                            MainLiterals[i].places)))
          /\ pc' = IF i < Len(MainLiterals) THEN MainLiterals[i + 1].line
                   ELSE MainBlocks[1].line
    /\ UNCHANGED <<program, status, tmp, checked, stack, res, build>>

\* the first statement of a block: the cast of the sample to the other scale
MainCastOut ==
    /\ Running("main")
    /\ \E i \in 1..Len(MainBlocks) :
          /\ pc = MainBlocks[i].line
          /\ tmp' = <<temperature_cast(MainBlocks[i].to, t[MainBlocks[i].sample])>>
    /\ pc' = pc + 1
    /\ UNCHANGED <<program, status, t, checked, stack, res, build>>

\* the second statement: the cast back
MainCastBack ==
    /\ Running("main")
    /\ \E i \in 1..Len(MainBlocks) :
          /\ pc = MainBlocks[i].line + 1
          /\ tmp' = Append(tmp, temperature_cast(MainBlocks[i].back, tmp[1]))
    /\ pc' = pc + 1
    /\ UNCHANGED <<program, status, t, checked, stack, res, build>>

\* the third statement: assert(sample == cast back); the block ends and its
\* two temporaries go out of scope, or the process aborts
MainAssert ==
    /\ Running("main")
    /\ \E i \in 1..Len(MainBlocks) :
          /\ pc = MainBlocks[i].line + 2
          /\ IF OpEq(t[MainBlocks[i].sample], tmp[2])
             THEN /\ checked' = Append(checked,
                                       <<t[MainBlocks[i].sample].scale,
                                         tmp[1].scale, tmp[2].scale>>)
                  /\ tmp' = <<>>
                  /\ pc' = IF i < Len(MainBlocks) THEN MainBlocks[i + 1].line
                           ELSE MainEnd
                  /\ status' = status
             ELSE /\ status' = "abort"
                  /\ UNCHANGED <<pc, tmp, checked>>
    /\ UNCHANGED <<program, t, stack, res, build>>

\* line 178: main returns, and the exit code is 0
MainReturn ==
    /\ Running("main")
    /\ pc = MainEnd
    /\ status' = "exit0"
    /\ UNCHANGED <<program, pc, t, tmp, checked, stack, res, build>>

(***************************************************************************)
(* A client: a chain of casts                                              *)
(***************************************************************************)
\* the quantities of the chain so far: the one constructed, then each result
ChainValues == t \o tmp

ClientCast ==
    /\ Running("casts")
    /\ Len(tmp) < Len(program.targets)
    /\ tmp' = Append(tmp, temperature_cast(program.targets[Len(tmp) + 1],
                                           ChainValues[Len(ChainValues)]))
    /\ UNCHANGED <<program, status, pc, t, checked, stack, res, build>>

(***************************************************************************)
(* A client: one operator call.  A frame is an operator with its operands  *)
(* and ret, the value returned by the call its body made (NoValue before). *)
(***************************************************************************)
Frame(op, lhs, rhs) == [op |-> op, lhs |-> lhs, rhs |-> rhs, ret |-> NoValue]

TopFrame == stack[Len(stack)]

\* the top frame returns v: to the frame below, or to the client
ReturnValue(v) ==
    IF Len(stack) = 1
    THEN /\ stack' = <<>>
         /\ res' = v
    ELSE /\ stack' = [SubSeq(stack, 1, Len(stack) - 1)
                        EXCEPT ![Len(stack) - 1].ret = v]
         /\ res' = res

ClientCall ==
    /\ Running("operator")
    /\ stack = <<>>
    /\ res = NoValue
    /\ stack' = <<Frame(program.op, t[1], t[2])>>
    /\ UNCHANGED <<program, status, pc, t, tmp, checked, res, build>>

\* operator==: return AreEqual(lhs, rhs)
EvalEq ==
    /\ Running("operator")
    /\ stack # <<>>
    /\ TopFrame.op = "=="
    /\ ReturnValue(BoolValue(OpEq(TopFrame.lhs, TopFrame.rhs)))
    /\ UNCHANGED <<program, status, pc, t, tmp, checked, build>>

\* operator+ and operator-
EvalArith ==
    /\ Running("operator")
    /\ stack # <<>>
    /\ TopFrame.op \in {"+", "-"}
    /\ ReturnValue(QuantityValue(IF TopFrame.op = "+" THEN OpPlus(TopFrame.lhs, TopFrame.rhs)
                                 ELSE OpMinus(TopFrame.lhs, TopFrame.rhs)))
    /\ UNCHANGED <<program, status, pc, t, tmp, checked, build>>

\* The call the body of an operator makes: != calls ==, > calls < with the
\* operands exchanged, <= calls >, >= calls <.
InnerCall(f) ==
    CASE f.op = "!=" -> Frame("==", f.lhs, f.rhs)
      [] f.op = ">" -> Frame("<", f.rhs, f.lhs)
      [] f.op = "<=" -> Frame(">", f.lhs, f.rhs)
      [] f.op = ">=" -> Frame("<", f.lhs, f.rhs)

\* what the operator returns, given the value its inner call returned
OuterResult(f) ==
    IF f.op = ">" THEN f.ret ELSE BoolValue(~f.ret.val)

CallInner ==
    /\ Running("operator")
    /\ stack # <<>>
    /\ TopFrame.op \in {"!=", ">", "<=", ">="}
    /\ TopFrame.ret = NoValue
    /\ Len(stack) < StackLimit
    /\ stack' = Append(stack, InnerCall(TopFrame))
    /\ UNCHANGED <<program, status, pc, t, tmp, checked, res, build>>

ReturnOuter ==
    /\ Running("operator")
    /\ stack # <<>>
    /\ TopFrame.op \in {"!=", ">", "<=", ">="}
    /\ TopFrame.ret # NoValue
    /\ ReturnValue(OuterResult(TopFrame))
    /\ UNCHANGED <<program, status, pc, t, tmp, checked, build>>

\* operator<: return lhs < rhs, a call of operator< itself with the same
\* operands.  The recursion never ends and has no side effect, which is
\* undefined behaviour; a build makes one of three things of it, decided
\* when the body first runs.
\*   frames: every call takes a frame, until the stack is exhausted
\*   loop:   the tail call is a jump, and the process spins
\*   elided: the recursion is removed, and some value is returned
Builds == {"frames", "loop", "elided"}

InLess(b) ==
    /\ Running("operator")
    /\ stack # <<>>
    /\ TopFrame.op = "<"
    /\ build \in {"any", b}
    /\ build' = b

LessRecurse ==
    /\ InLess("frames")
    /\ Len(stack) < StackLimit
    /\ stack' = Append(stack, Frame("<", TopFrame.lhs, TopFrame.rhs))
    /\ UNCHANGED <<program, status, pc, t, tmp, checked, res>>

LessOverflow ==
    /\ InLess("frames")
    /\ Len(stack) = StackLimit
    /\ status' = "segv"
    /\ UNCHANGED <<program, pc, t, tmp, checked, stack, res>>

LessSpin ==
    /\ InLess("loop")
    /\ UNCHANGED <<program, status, pc, t, tmp, checked, stack, res>>

LessElided ==
    /\ InLess("elided")
    /\ \E b \in BOOLEAN : ReturnValue(BoolValue(b))
    /\ UNCHANGED <<program, status, pc, t, tmp, checked>>

\* the client returns from its main once its program is done
ClientReturn ==
    /\ \/ Running("casts") /\ Len(tmp) = Len(program.targets)
       \/ Running("operator") /\ stack = <<>> /\ res # NoValue
    /\ status' = "exit0"
    /\ UNCHANGED <<program, pc, t, tmp, checked, stack, res, build>>

Next ==
    \/ Compile
    \/ MainLiteral
    \/ MainCastOut
    \/ MainCastBack
    \/ MainAssert
    \/ MainReturn
    \/ ClientCast
    \/ ClientCall
    \/ EvalEq
    \/ EvalArith
    \/ CallInner
    \/ ReturnOuter
    \/ LessRecurse
    \/ LessOverflow
    \/ LessSpin
    \/ LessElided
    \/ ClientReturn

Spec == Init /\ [][Next]_vars

(***************************************************************************)
(* Properties                                                              *)
(***************************************************************************)

\* the magnitude up to which the tolerance absorbs the rounding of a
\* conversion chain or of a sum of three: 2^32
MaxMagnitude == Pow2(32)

InRange(x) == IsFinite(x) /\ ~DLess(MaxMagnitude, DAbs(x))

\* a client whose casts have all run
CastsDone == program.kind = "casts" /\ Len(tmp) = Len(program.targets)

\* the positions i of the chain where a round trip starts:
\* S -> T -> S over ChainValues[i], [i + 1], [i + 2]
RoundTrips ==
    {i \in 1..(Len(ChainValues) - 2) :
        ChainValues[i + 2].scale = ChainValues[i].scale}

\* C1 as stated: for every quantity q of scale S and every other scale T,
\* temperature_cast<S>(temperature_cast<T>(q)) == q under the tolerance
\* equality.
C1_RoundTripAnyQuantity ==
    program.kind = "casts" =>
        \A i \in RoundTrips : OpEq(ChainValues[i + 2], ChainValues[i])

\* C1 amended: the round trip S -> T -> S returns a quantity equal to q under
\* the tolerance equality for every q whose raw value is finite and of
\* magnitude at most 2^32.
C1_RoundTripInRange ==
    program.kind = "casts" =>
        \A i \in RoundTrips :
            InRange(ChainValues[i].amount) =>
                OpEq(ChainValues[i + 2], ChainValues[i])

\* a round trip has run on a quantity in range, and came back to another raw
\* value, within the tolerance
C1_Witness ==
    /\ CastsDone
    /\ \E i \in RoundTrips :
          /\ InRange(ChainValues[i].amount)
          /\ ChainValues[i + 2].amount # ChainValues[i].amount
          /\ OpEq(ChainValues[i + 2], ChainValues[i])

\* The table of the conversions, as the specification gives it.
TableFormula(S, R, v) ==
    CASE S = "CELSIUS" /\ R = "KELVIN" -> DAdd(v, Lit(27315, 2))
      [] S = "KELVIN" /\ R = "CELSIUS" -> DSub(v, Lit(27315, 2))
      [] S = "CELSIUS" /\ R = "FAHRENHEIT" ->
             DAdd(DDiv(DMul(v, FromInt(9)), FromInt(5)), FromInt(32))
      [] S = "FAHRENHEIT" /\ R = "CELSIUS" ->
             DDiv(DMul(DSub(v, FromInt(32)), FromInt(5)), FromInt(9))
      [] S = "FAHRENHEIT" /\ R = "KELVIN" ->
             DDiv(DMul(DAdd(v, Lit(45967, 2)), FromInt(5)), FromInt(9))
      [] S = "KELVIN" /\ R = "FAHRENHEIT" ->
             DSub(DDiv(DMul(v, FromInt(9)), FromInt(5)), Lit(45967, 2))

\* C2: every temperature_cast<R> of a Quantity<S> yields a quantity of scale
\* R whose raw value is the tabulated formula for (S, R) applied to the raw
\* value of its argument, never the formula for (R, S).
C2_CastAppliesTable ==
    program.kind = "casts" =>
        \A i \in 1..Len(tmp) :
            /\ tmp[i].scale = program.targets[i]
            /\ tmp[i].amount = TableFormula(ChainValues[i].scale,
                                            program.targets[i],
                                            ChainValues[i].amount)

\* a cast has run whose formula differs from that of the opposite pair
C2_Witness ==
    /\ program.kind = "casts"
    /\ Len(tmp) >= 1
    /\ t[1].scale = "FAHRENHEIT"
    /\ tmp[1].scale = "KELVIN"
    /\ tmp[1].amount # TableFormula("KELVIN", "FAHRENHEIT", t[1].amount)

\* an operator call of the client has returned
Returned(op) ==
    program.kind = "operator" /\ program.op = op /\ res # NoValue

\* abs(raw(a) - raw(b)) < 0.001, in double arithmetic
WithinTolerance(a, b) ==
    DLess(DAbs(DSub(a.amount, b.amount)), Lit(1, 3))

\* C3: a == b returns true exactly when abs(raw(a) - raw(b)) < 0.001 (a
\* difference of exactly EPSILON is unequal), and a != b returns the
\* negation.
C3_ToleranceEquality ==
    /\ Returned("==") => res = BoolValue(WithinTolerance(t[1], t[2]))
    /\ Returned("!=") => res = BoolValue(~WithinTolerance(t[1], t[2]))

\* == has returned false for two quantities that differ by exactly EPSILON
C3_Witness ==
    /\ Returned("==")
    /\ DAbs(DSub(t[1].amount, t[2].amount)) = Lit(1, 3)
    /\ res = BoolValue(FALSE)

Ordering == {"<", ">", "<=", ">="}

\* the comparison of the raw values that an ordering operator stands for
RawOrder(op, a, b) ==
    CASE op = "<" -> DLess(a.amount, b.amount)
      [] op = ">" -> DLess(b.amount, a.amount)
      [] op = "<=" -> ~DLess(b.amount, a.amount)
      [] op = ">=" -> ~DLess(a.amount, b.amount)

\* C4: a call of <, >, <= or >= returns the comparison of the raw values: the
\* process does not die in it, and the value it returns is that comparison.
C4_OrderingByRawValue ==
    (program.kind = "operator" /\ program.op \in Ordering) =>
        /\ status # "segv"
        /\ res # NoValue => res = BoolValue(RawOrder(program.op, t[1], t[2]))

\* a call that can never return: the process was killed with its stack
\* exhausted, or the frame on top has one step only, back to the same state
NeverReturns ==
    \/ status = "segv"
    \/ /\ status = "running"
       /\ stack # <<>>
       /\ TopFrame.op = "<"
       /\ build = "loop"

\* C5: every operation is total: no call is ever in a state from which it
\* cannot return, neither out of stack (the call depth stays bounded) nor
\* spinning.
C5_EveryCallReturns == ~NeverReturns

\* the round trips of main, in order, as (sample, out, back) scales
ExpectedRoundTrips ==
    << <<"CELSIUS", "FAHRENHEIT", "CELSIUS">>,
       <<"CELSIUS", "KELVIN", "CELSIUS">>,
       <<"FAHRENHEIT", "CELSIUS", "FAHRENHEIT">>,
       <<"FAHRENHEIT", "KELVIN", "FAHRENHEIT">>,
       <<"KELVIN", "CELSIUS", "KELVIN">>,
       <<"KELVIN", "FAHRENHEIT", "KELVIN">> >>

\* C6: main builds 36.5 Celsius, 79.0 Fahrenheit and 100.0 Kelvin, runs the
\* six round trips in order, every assertion holds when reached (the process
\* never aborts), and the run ends with exit code 0.
C6_SelfCheckPasses ==
    program.kind = "main" =>
        /\ status \in {"source", "running", "exit0"}
        /\ Len(checked) <= Len(ExpectedRoundTrips)
        /\ checked = SubSeq(ExpectedRoundTrips, 1, Len(checked))
        /\ Len(t) = 3 =>
              t = << Quantity("CELSIUS", Lit(365, 1)),
                     Quantity("FAHRENHEIT", FromInt(79)),
                     Quantity("KELVIN", FromInt(100)) >>
        /\ status = "exit0" => checked = ExpectedRoundTrips /\ Len(t) = 3

\* main has returned, exit code 0, after the six assertions
C6_Witness ==
    program.kind = "main" /\ status = "exit0" /\ Len(checked) = 6

\* the first cast of a client's chain, from scale S and raw value v to R
FirstCast(S, v, R) ==
    /\ program.kind = "casts"
    /\ Len(tmp) >= 1
    /\ t[1] = Quantity(S, v)
    /\ tmp[1].scale = R

\* C7: 0.0 Celsius is 273.15 Kelvin and 32.0 Fahrenheit, and -459.67
\* Fahrenheit is 0.0 Kelvin, exactly.
C7_FixedPoints ==
    /\ FirstCast("CELSIUS", Zero(0), "KELVIN") => tmp[1].amount = Lit(27315, 2)
    /\ FirstCast("CELSIUS", Zero(0), "FAHRENHEIT") => tmp[1].amount = FromInt(32)
    /\ FirstCast("FAHRENHEIT", Lit(-45967, 2), "KELVIN") => IsZero(tmp[1].amount)

\* -459.67 Fahrenheit has been cast to Kelvin
C7_Witness == FirstCast("FAHRENHEIT", Lit(-45967, 2), "KELVIN")

\* the third operands of the sums of three
ThirdAmounts == {FromInt(1), Lit(1, 3), Lit(-365, 1), Pow2(32)}

\* (a + b) + c == a + (b + c)
Associates(a, b, c) == OpEq(OpPlus(OpPlus(a, b), c), OpPlus(a, OpPlus(b, c)))

\* a + b and a - b are quantities of the scale of a and b, with raw values
\* raw(a) + raw(b) and raw(a) - raw(b)
SumAndDifference ==
    /\ Returned("+") =>
          res = QuantityValue(Quantity(t[1].scale, DAdd(t[1].amount, t[2].amount)))
    /\ Returned("-") =>
          res = QuantityValue(Quantity(t[1].scale, DSub(t[1].amount, t[2].amount)))

\* C8 as stated: a + b and a - b are as above, and (a + b) + c == a + (b + c)
\* for any quantities a, b, c of one scale.
C8_AssociativeAnyQuantity ==
    /\ SumAndDifference
    /\ Returned("+") =>
          \A c \in ThirdAmounts :
              Associates(t[1], t[2], Quantity(t[1].scale, c))

\* C8 amended: a + b and a - b are as above, and (a + b) + c == a + (b + c)
\* for quantities a, b, c of one scale whose raw values are finite and of
\* magnitude at most 2^32.
C8_AssociativeInRange ==
    /\ SumAndDifference
    /\ Returned("+") =>
          \A c \in ThirdAmounts :
              (InRange(t[1].amount) /\ InRange(t[2].amount) /\ InRange(c)) =>
                  Associates(t[1], t[2], Quantity(t[1].scale, c))

\* + has returned the sum of two quantities in range, and the two groupings
\* with a third give different raw values, within the tolerance
C8_Witness ==
    /\ Returned("+")
    /\ InRange(t[1].amount) /\ InRange(t[2].amount)
    /\ \E c \in ThirdAmounts :
          /\ InRange(c)
          /\ OpPlus(res.val, Quantity(t[1].scale, c)).amount
                # OpPlus(t[1], OpPlus(t[2], Quantity(t[1].scale, c))).amount
          /\ Associates(t[1], t[2], Quantity(t[1].scale, c))

\* C9: a conversion is defined for exactly the six ordered pairs of distinct
\* scales; a program that asks for another pair is rejected before it runs
\* (nothing has run, no value was produced, no failure at run time), and a
\* program that runs casts only between distinct scales.
C9_SixConversions ==
    /\ {p \in Scale \X Scale : HasConversion(p[1], p[2])}
          = {p \in Scale \X Scale : p[1] # p[2]}
    /\ program.kind = "casts" =>
          /\ (\E i \in 1..Len(program.targets) :
                  program.targets[i]
                      = (IF i = 1 THEN t[1].scale ELSE program.targets[i - 1]))
                => status \in {"source", "rejected"}
          /\ status = "rejected" =>
                tmp = <<>> /\ stack = <<>> /\ res = NoValue
          /\ \A i \in 1..Len(tmp) :
                /\ tmp[i].scale # ChainValues[i].scale
                /\ tmp[i].amount # Deleted

\* a program with a cast of a scale to itself has been rejected
C9_Witness ==
    /\ program.kind = "casts"
    /\ status = "rejected"
    /\ program.targets[1] = t[1].scale

\* the chains S -> T -> U over three distinct scales, by their first position
Paths ==
    {i \in 1..(Len(ChainValues) - 2) :
        Cardinality({ChainValues[i].scale, ChainValues[i + 1].scale,
                     ChainValues[i + 2].scale}) = 3}

\* the direct cast S -> U equals the chained cast S -> T -> U
PathAgrees(i) ==
    OpEq(temperature_cast(ChainValues[i + 2].scale, ChainValues[i]),
         ChainValues[i + 2])

\* C10 as stated: for three distinct scales S, T, U and every quantity q of
\* scale S, temperature_cast<U>(q) == temperature_cast<U>(temperature_cast<T>(q)).
C10_PathsAgreeAnyQuantity ==
    program.kind = "casts" => \A i \in Paths : PathAgrees(i)

\* C10 amended: the direct and the chained conversion agree under the
\* tolerance equality for every q whose raw value is finite and of magnitude
\* at most 2^32.
C10_PathsAgreeInRange ==
    program.kind = "casts" =>
        \A i \in Paths : InRange(ChainValues[i].amount) => PathAgrees(i)

\* a chain over three scales has run on a quantity in range, and its result
\* differs from the direct cast, within the tolerance
C10_Witness ==
    /\ CastsDone
    /\ \E i \in Paths :
          /\ InRange(ChainValues[i].amount)
          /\ temperature_cast(ChainValues[i + 2].scale, ChainValues[i])
                # ChainValues[i + 2]
          /\ PathAgrees(i)

=============================================================================
